---- MODULE Spec2Model ----
(***************************************************************************)
(* A model of the invoice generator backend: DriveService                  *)
(* (backend/drive_service.py) and the Flask handlers that use it           *)
(* (backend/server.py).                                                    *)
(*                                                                         *)
(* The state is the process environment (credential sources in environment *)
(* variables and files, the persisted config file, the local file system), *)
(* the DriveService object of the running process, and the return of the   *)
(* operation that completed last.  Each method and each request handler is *)
(* one action.  Outcomes that the code does not decide (does the provider  *)
(* accept a call, does a refresh succeed, does a write or a delete         *)
(* succeed) are inputs of the action, drawn with \E.                       *)
(***************************************************************************)
EXTENDS Integers, Sequences, FiniteSets, TLC

VARIABLES
    envSA,        \* GOOGLE_SERVICE_ACCOUNT_JSON: "none", "good" or "bad" (unparsable)
    fileSA,       \* config/service_account.json: "none", "good" or "bad"
    envTok,       \* GOOGLE_OAUTH_TOKEN_JSON: a token document
    tokFile,      \* config/token.json: a token document
    credFile,     \* config/credentials.json: "none", "good" or "bad"
    envClient,    \* GOOGLE_OAUTH_CREDENTIALS_JSON: "none", "good" or "bad"
    configFile,   \* config/drive_config.json, as text
    fs,           \* local files other than the above: path -> content
    pc,           \* "down": no process; "serving": DriveService() is constructed
    credentials,  \* self.credentials
    service,      \* self.service is not None
    config,       \* self.config
    auth,         \* what the last run of authenticate did
    inflight,     \* the upload requests being handled, each with its position
    ret           \* the operation that returned last, with its arguments and effects

vars == <<envSA, fileSA, envTok, tokFile, credFile, envClient, configFile, fs,
          pc, credentials, service, config, auth, inflight, ret>>

envVars == <<envSA, fileSA, envTok, tokFile, credFile, envClient>>
objVars == <<pc, credentials, service, config, auth>>

----------------------------------------------------------------------------
(* Bounds of the model.                                                    *)

\* Provider-assigned file and folder identifiers are 1..MaxFileId.
MaxFileId == 2

\* At most MaxRequests upload requests are handled at the same time.
MaxRequests == 2

\* Buyer names of up to MaxNameLen characters are enumerated in full.
MaxNameLen == 3

----------------------------------------------------------------------------
(* Credentials and credential documents.                                   *)

\* A token document (the JSON of an authorized user): absent, unparsable, or
\* a token with its expiry state and with or without a refresh token.
NoDoc  == [kind |-> "none", expired |-> FALSE, refresh |-> FALSE]
BadDoc == [kind |-> "bad",  expired |-> FALSE, refresh |-> FALSE]
TokDoc(e, r) == [kind |-> "tok", expired |-> e, refresh |-> r]
TokDocs == {NoDoc, BadDoc} \cup {TokDoc(e, r) : e \in BOOLEAN, r \in BOOLEAN}

SourceStates == {"none", "good", "bad"}

\* creds: src is the method (1..5) that produced the object, 0 for None.
NoCred == [src |-> 0, expired |-> FALSE, refresh |-> FALSE]
Cred(s, e, r) == [src |-> s, expired |-> e, refresh |-> r]

\* "not creds": None is the only falsy credential value.
NotCreds(creds) == creds.src = 0

\* The outcomes authenticate() does not decide.
AuthInputs == [refreshOk : BOOLEAN, flowOk : BOOLEAN, saveOk : BOOLEAN, buildOk : BOOLEAN]

\* service_account.Credentials.from_service_account_file: raises on a bad
\* document, else a credential that is not expired and has no refresh token.
FromServiceAccount(state, method) ==
    IF state = "good" THEN Cred(method, FALSE, FALSE) ELSE NoCred

\* Methods 3 and 4: Credentials.from_authorized_user_file, then a refresh when
\* the credential is expired and has a refresh token.  creds is assigned
\* before refresh() is called, so a refresh that raises leaves the expired
\* credential in creds.  Result: the credential and the number of refresh calls.
FromAuthorizedUser(doc, method, in) ==
    IF doc.kind # "tok"
    THEN [creds |-> NoCred, refreshes |-> 0]
    ELSE IF doc.expired /\ doc.refresh
         THEN [creds |-> Cred(method, ~in.refreshOk, TRUE), refreshes |-> 1]
         ELSE [creds |-> Cred(method, doc.expired, doc.refresh), refreshes |-> 0]

\* creds.to_json(): the document of a credential.
ToJson(creds) == TokDoc(creds.expired, creds.refresh)

\* Method 4 as if it saved the credential, the way method 5 does.
TokenFileWrittenBack(file, creds) == ToJson(creds)

\* The token file after method 4 ran: the code does not write it.
TokenFileAfterMethod4(file, creds) == file

\* DriveService.authenticate, on the environment e (a record of the six
\* sources) with the outcomes in.  Result: creds, whether self.service was
\* built, the token file afterwards, the methods entered in order and the
\* number of refresh calls.
authenticate(e, in) ==
    LET \* Method 1
        try1 == e.envSA # "none"
        c1   == IF try1 THEN FromServiceAccount(e.envSA, 1) ELSE NoCred
        \* Method 2
        try2 == NotCreds(c1) /\ e.fileSA # "none"
        c2   == IF try2 THEN FromServiceAccount(e.fileSA, 2) ELSE c1
        \* Method 3
        try3 == NotCreds(c2) /\ e.envTok.kind # "none"
        r3   == FromAuthorizedUser(e.envTok, 3, in)
        c3   == IF try3 THEN r3.creds ELSE c2
        n3   == IF try3 THEN r3.refreshes ELSE 0
        \* Method 4
        try4 == NotCreds(c3) /\ e.tokFile.kind # "none"
        r4   == FromAuthorizedUser(e.tokFile, 4, in)
        c4   == IF try4 THEN r4.creds ELSE c3
        n4   == IF try4 THEN r4.refreshes ELSE 0
        f4   == IF try4 /\ ~NotCreds(c4)
                THEN TokenFileAfterMethod4(e.tokFile, c4) ELSE e.tokFile
        \* Method 5
        try5 == NotCreds(c4) /\ e.credFile # "none"
        got5 == try5 /\ e.credFile = "good" /\ in.flowOk
        c5   == IF got5 THEN Cred(5, FALSE, TRUE) ELSE c4
        f5   == IF got5 /\ in.saveOk THEN ToJson(c5) ELSE f4
        \* Method 6 yields no credential
        try6 == NotCreds(c5) /\ e.envClient # "none"
        entered == (IF try1 THEN {1} ELSE {}) \cup (IF try2 THEN {2} ELSE {})
                   \cup (IF try3 THEN {3} ELSE {}) \cup (IF try4 THEN {4} ELSE {})
                   \cup (IF try5 THEN {5} ELSE {}) \cup (IF try6 THEN {6} ELSE {})
        tried == SelectSeq(<<1, 2, 3, 4, 5, 6>>, LAMBDA m : m \in entered)
    IN  [creds     |-> c5,
         service   |-> ~NotCreds(c5) /\ in.buildOk,
         tokFile   |-> f5,
         tried     |-> tried,
         refreshes |-> n3 + n4,
         ok        |-> ~NotCreds(c5) /\ in.buildOk]

Env == [envSA |-> envSA, fileSA |-> fileSA, envTok |-> envTok, tokFile |-> tokFile,
        credFile |-> credFile, envClient |-> envClient]

\* auth: the methods the last authenticate() entered, its refresh calls, and
\* what the provider and the user answered to it.
NoAuth == [tried |-> <<>>, refreshes |-> 0, refreshOk |-> FALSE, flowOk |-> FALSE]

----------------------------------------------------------------------------
(* The config record and its JSON text.                                    *)

\* Folder ids known to the provider; "" is the empty folder id.
Folders == {"F1", "F2"}
Stamps  == {"2024-01-01T10:00:00"}
BoolKeys == {"auto_upload", "delete_after_upload"}

\* dict.update
DictUpdate(d, n) ==
    [k \in DOMAIN d \cup DOMAIN n |-> IF k \in DOMAIN n THEN n[k] ELSE d[k]]

\* dict.get(key, default)
DictGet(d, k, default) == IF k \in DOMAIN d THEN d[k] ELSE default

default_config ==
    [folder_id |-> "", auto_upload |-> TRUE, delete_after_upload |-> FALSE]

\* json.dump of a flat dict: one member per key, a boolean written as the
\* literal true/false and a string written as a JSON string.
JsonMember(k, v) ==
    IF k \in BoolKeys
    THEN [key |-> k, type |-> "literal", text |-> IF v THEN "true" ELSE "false"]
    ELSE [key |-> k, type |-> "string",  text |-> v]

JsonDump(d) == [state |-> "json", members |-> {JsonMember(k, d[k]) : k \in DOMAIN d}]

\* json.load of such a text.
JsonValue(m) == IF m.type = "literal" THEN m.text = "true" ELSE m.text

JsonLoad(text) ==
    [k \in {m.key : m \in text.members} |->
        JsonValue(CHOOSE m \in text.members : m.key = k)]

AbsentFile  == [state |-> "absent",  members |-> {}]
CorruptFile == [state |-> "corrupt", members |-> {}]

\* What a write of `text` leaves in a file holding `old`: "ok" the text,
\* "openfail" the old content (open raised), "partial" a truncated text
\* (json.dump raised after open truncated the file).
WriteOutcomes == {"ok", "openfail", "partial"}
WriteFile(old, text, outcome) ==
    CASE outcome = "ok"       -> text
      [] outcome = "openfail" -> old
      [] outcome = "partial"  -> CorruptFile

\* DriveService.load_config: the record returned, and the file afterwards.
load_config(file, outcome) ==
    CASE file.state = "json"    -> [config |-> JsonLoad(file), file |-> file]
      [] file.state = "absent"  -> [config |-> default_config,
                                    file   |-> WriteFile(file, JsonDump(default_config), outcome)]
      [] file.state = "corrupt" -> [config |-> default_config, file |-> file]

\* update_config as if it wrote only the fields it was given.
PersistedOnlyNew(cfg, new_config) == new_config

\* What update_config writes: the whole in-memory record after the update.
PersistedRecord(cfg, new_config) == DictUpdate(cfg, new_config)

\* DriveService.update_config: self.config is updated first, then written.
update_config(cfg, file, new_config, outcome) ==
    [config |-> DictUpdate(cfg, new_config),
     file   |-> WriteFile(file, JsonDump(PersistedRecord(cfg, new_config)), outcome),
     result |-> outcome = "ok"]

----------------------------------------------------------------------------
(* Text: a string of the program is a sequence of one-character strings.    *)

Letters    == {"A", "B", "C", "c", "o", "ç", "p", "d", "e", "f", "m", "r", "t", "x"}
Digits     == {"1", "2", "7"}
Whitespace == {" "}

\* \w of a Python 3 str pattern: Unicode letters, digits and the underscore.
IsWordChar(c) == c \in Letters \cup Digits \cup {"_"}

\* The removal as if \w matched ASCII only (re.ASCII).
RemoveSpecialAscii(s) ==
    SelectSeq(s, LAMBDA c : (IsWordChar(c) /\ c # "ç") \/ c \in Whitespace \/ c = "-")

\* re.sub(r'[^\w\s-]', '', s)
RemoveSpecial(s) ==
    SelectSeq(s, LAMBDA c : IsWordChar(c) \/ c \in Whitespace \/ c = "-")

\* str.strip()
RECURSIVE LStrip(_)
LStrip(s) == IF s # <<>> /\ Head(s) \in Whitespace THEN LStrip(Tail(s)) ELSE s

RECURSIVE RStrip(_)
RStrip(s) ==
    IF s # <<>> /\ s[Len(s)] \in Whitespace THEN RStrip(SubSeq(s, 1, Len(s) - 1)) ELSE s

Strip(s) == RStrip(LStrip(s))

\* re.sub(r'\s+', '_', s): each maximal run of whitespace becomes one underscore.
RECURSIVE CollapseWhitespace(_)
CollapseWhitespace(s) ==
    IF s = <<>> THEN <<>>
    ELSE IF Head(s) \in Whitespace
         THEN <<"_">> \o CollapseWhitespace(LStrip(s))
         ELSE <<Head(s)>> \o CollapseWhitespace(Tail(s))

clean_buyer_name(buyer_name) == CollapseWhitespace(Strip(RemoveSpecial(buyer_name)))

\* s.split(sep)[-1]: what follows the last sep, all of s when there is none.
RECURSIVE AfterLast(_, _)
AfterLast(s, sep) ==
    IF \E i \in 1..Len(s) : s[i] = sep
    THEN AfterLast(SubSeq(s, (CHOOSE i \in 1..Len(s) : s[i] = sep) + 1, Len(s)), sep)
    ELSE s

Contains(s, c) == \E i \in 1..Len(s) : s[i] = c

\* filename.split('.')[-1] if '.' in filename else 'pdf'
file_extension(filename) ==
    IF Contains(filename, ".") THEN AfterLast(filename, ".") ELSE <<"p", "d", "f">>

\* f"{clean_buyer_name}_(Invoice_{invoice_no}).{file_extension}"
custom_filename(buyer_name, invoice_no, filename) ==
    clean_buyer_name(buyer_name)
        \o <<"_", "(", "I", "n", "v", "o", "i", "c", "e", "_">> \o invoice_no
        \o <<")", ".">> \o file_extension(filename)

----------------------------------------------------------------------------
(* The local file system.  A path is a directory followed by the characters *)
(* of what is joined to it.                                                 *)

TempDir == "data/temp/"
UserDir == "/srv/out/"

\* os.path.join('data', 'temp', custom_filename)
temp_file_path(name) == <<TempDir>> \o name

\* os.path.basename
basename(path) == AfterLast(Tail(path), "/")

\* os.path.exists
Exists(files, path) == path \in DOMAIN files

\* open(path, 'wb') finds its directory: a name that holds a separator names
\* a directory below data/temp that nothing has created.
DirectoryExists(path) == ~Contains(Tail(path), "/")

FileWrite(files, path, bytes) ==
    [q \in DOMAIN files \cup {path} |-> IF q = path THEN bytes ELSE files[q]]

FileRemove(files, path) == [q \in DOMAIN files \ {path} |-> files[q]]

\* os.remove: removes an existing file unless the system refuses.
OsRemove(files, path, removeOk) ==
    IF Exists(files, path) /\ removeOk THEN FileRemove(files, path) ELSE files

\* with open(temp_file_path, 'wb') as f: f.write(file_bytes)
WriteBytes(files, path, bytes, outcome) ==
    CASE ~DirectoryExists(path) \/ outcome = "openfail" -> files
      [] outcome = "partial" -> FileWrite(files, path, "")
      [] outcome = "ok"      -> FileWrite(files, path, bytes)

WriteRaised(path, outcome) == ~DirectoryExists(path) \/ outcome # "ok"

\* base64.b64decode on the payloads of the model; "error" when it raises.
B64Texts == {"", "JVBERi0x", "JVBERi0y", "abc"}
B64Decode(text) ==
    CASE text = "JVBERi0x" -> "%PDF-1"
      [] text = "JVBERi0y" -> "%PDF-2"
      [] OTHER             -> "error"

----------------------------------------------------------------------------
(* The provider and the DriveService methods.                               *)

\* str(e) of what execute() raises when the provider rejects a call.
ProviderErrors == {"HttpError 403: storageQuotaExceeded", "HttpError 404: notFound"}

\* What the provider answers to one call: an id when it accepts the call, a
\* message when it rejects it.
ProviderInputs ==
    {[outcome |-> "ok", id |-> i, message |-> ""] : i \in 1..MaxFileId}
        \cup {[outcome |-> "error", id |-> 0, message |-> m] : m \in ProviderErrors}

WebLink(id) == <<"https://drive.google.com/file/d/", id>>

\* One provider call as the provider sees it, with what it answered: the id
\* (0: none) or the message of the rejection ("": none).
ProviderCall(kind, name, parent, creds, bytes, in) ==
    [kind |-> kind, name |-> name, parent |-> parent, cred |-> creds,
     bytes |-> bytes, outcome |-> in.outcome,
     id |-> IF in.outcome = "ok" THEN in.id ELSE 0,
     message |-> IF in.outcome = "error" THEN in.message ELSE ""]

NotAuthenticated == [success |-> FALSE, error |-> "Not authenticated"]
FileNotFound     == [success |-> FALSE, error |-> "File not found"]

\* The precheck with its two checks in the other order.
UploadPrecheckFileFirst(svc, files, file_path) ==
    IF ~Exists(files, file_path) THEN FileNotFound
    ELSE IF ~svc THEN NotAuthenticated
    ELSE [success |-> TRUE]

\* The precheck without its check of self.service.
UploadPrecheckNoService(svc, files, file_path) ==
    IF ~Exists(files, file_path) THEN FileNotFound ELSE [success |-> TRUE]

\* upload_file before it touches the provider: the early return, or "go".
UploadPrecheck(svc, files, file_path) ==
    IF ~svc THEN NotAuthenticated
    ELSE IF ~Exists(files, file_path) THEN FileNotFound
    ELSE [success |-> TRUE]

\* target_folder = folder_id or self.config.get('folder_id'); "" is no parent.
TargetFolder(folder_id, cfg) ==
    IF folder_id # "" THEN folder_id ELSE DictGet(cfg, "folder_id", "")

\* The return as if a failed os.remove were not caught.
UploadReturnStrict(file, deleteFailed) ==
    IF deleteFailed
    THEN [success |-> FALSE, error |-> "PermissionError"]
    ELSE [success |-> TRUE, file_id |-> file.id, file_name |-> file.name,
          web_link |-> file.webViewLink]

\* What upload_file returns once files().create() has returned `file`,
\* whatever became of the local file.
UploadReturn(file, deleteFailed) ==
    [success |-> TRUE, file_id |-> file.id, file_name |-> file.name,
     web_link |-> file.webViewLink]

\* The failure as if the handler reported a message of its own.
UploadFailureReworded(message) == [success |-> FALSE, error |-> "Upload failed"]

\* except Exception as e: return {'success': False, 'error': str(e)}
UploadFailure(message) == [success |-> FALSE, error |-> message]

\* DriveService.upload_file.  rm: whether os.remove succeeds.  Result: the
\* dict returned, the provider calls made and the file system afterwards.
upload_file(svc, creds, cfg, files, file_path, folder_id, in, rm) ==
    LET pre  == UploadPrecheck(svc, files, file_path)
        call == ProviderCall("files.create", basename(file_path),
                             TargetFolder(folder_id, cfg), creds, files[file_path], in)
        file == [id |-> in.id, name |-> basename(file_path), webViewLink |-> WebLink(in.id)]
        del  == DictGet(cfg, "delete_after_upload", FALSE)
    IN  IF ~pre.success
        THEN [res |-> pre, calls |-> <<>>, fs |-> files]
        ELSE IF in.outcome = "error"
        THEN [res |-> UploadFailure(in.message), calls |-> <<call>>, fs |-> files]
        ELSE [res |-> UploadReturn(file, del /\ ~rm),
              calls |-> <<call>>,
              fs |-> IF del THEN OsRemove(files, file_path, rm) ELSE files]

\* DriveService.get_user_info
get_user_info(svc, creds, in) ==
    IF ~svc THEN [res |-> [error |-> "Not authenticated"], calls |-> <<>>]
    ELSE [res |-> IF in.outcome = "error" THEN [error |-> in.message]
                  ELSE [email |-> "user@example.com", name |-> "User", photo |-> "photo"],
          calls |-> <<ProviderCall("about.get", <<>>, "", creds, "", in)>>]

\* get_folders without its check of self.service.
get_folders_unchecked(svc, creds, parent_id, in) ==
    [res |-> IF in.outcome = "error" THEN <<>>
             ELSE <<[id |-> in.id, name |-> <<"d">>,
                     parents |-> IF parent_id = "" THEN <<>> ELSE <<parent_id>>]>>,
     calls |-> <<ProviderCall("files.list", <<>>, parent_id, creds, "", in)>>]

\* DriveService.get_folders
get_folders(svc, creds, parent_id, in) ==
    IF ~svc THEN [res |-> <<>>, calls |-> <<>>]
    ELSE [res |-> IF in.outcome = "error" THEN <<>>
                  ELSE <<[id |-> in.id, name |-> <<"d">>,
                          parents |-> IF parent_id = "" THEN <<>> ELSE <<parent_id>>]>>,
          calls |-> <<ProviderCall("files.list", <<>>, parent_id, creds, "", in)>>]

\* DriveService.create_folder
create_folder(svc, creds, folder_name, parent_id, in) ==
    IF ~svc THEN [res |-> NotAuthenticated, calls |-> <<>>]
    ELSE [res |-> IF in.outcome = "error" THEN [success |-> FALSE, error |-> in.message]
                  ELSE [success |-> TRUE, folder_id |-> in.id, folder_name |-> folder_name],
          calls |-> <<ProviderCall("files.create(folder)", folder_name, parent_id, creds, "", in)>>]

----------------------------------------------------------------------------
(* The request handlers of server.py.                                       *)

\* jsonify of upload_to_drive's two final branches, with the HTTP status.
UploadResponse(result) ==
    IF result.success
    THEN [status |-> 200,
          body |-> [success |-> TRUE, file_id |-> result.file_id,
                    message |-> "File uploaded successfully to Google Drive",
                    web_link |-> result.web_link]]
    ELSE [status |-> 500, body |-> [success |-> FALSE, error |-> result.error]]

\* upload_to_drive with file_path.
upload_to_drive_path(svc, creds, cfg, files, file_path, in, rm) ==
    IF ~Exists(files, file_path)
    THEN [resp |-> [status |-> 400, body |-> FileNotFound], calls |-> <<>>, fs |-> files]
    ELSE LET u == upload_file(svc, creds, cfg, files, file_path, "", in, rm)
         IN  [resp |-> UploadResponse(u.res), calls |-> u.calls, fs |-> u.fs]

\* The staged file once upload_file has returned: os.remove, errors ignored.
CleanupStaged(files, path, rm) == OsRemove(files, path, rm)

\* upload_to_drive with filename and file_data.  w: how the write of the
\* staged file ends; rm, rm2: whether the two os.remove calls succeed.
upload_to_drive_data(svc, creds, cfg, files, filename, file_data, buyer_name, invoice_no, in, w, rm, rm2) ==
    LET bytes  == B64Decode(file_data)
        path   == temp_file_path(custom_filename(buyer_name, invoice_no, filename))
        staged == WriteBytes(files, path, bytes, w)
        u      == upload_file(svc, creds, cfg, staged, path, "", in, rm)
    IN  IF filename = <<>> \/ file_data = ""
        THEN [resp |-> [status |-> 400,
                        body |-> [success |-> FALSE,
                                  error |-> "Either file_path or (filename + file_data) must be provided"]],
              calls |-> <<>>, fs |-> files, path |-> <<>>]
        ELSE IF bytes = "error"
        THEN [resp |-> [status |-> 400,
                        body |-> [success |-> FALSE, error |-> "Invalid base64 data"]],
              calls |-> <<>>, fs |-> files, path |-> <<>>]
        ELSE IF WriteRaised(path, w)
        THEN [resp |-> [status |-> 500, body |-> [success |-> FALSE, error |-> "OSError"]],
              calls |-> <<>>, fs |-> staged, path |-> path]
        ELSE [resp |-> UploadResponse(u.res), calls |-> u.calls,
              fs |-> CleanupStaged(u.fs, path, rm2), path |-> path]

\* configure_drive: writes a new record to the config file; the running
\* DriveService is not told.  (The relative path backend/config/... names the
\* file DriveService reads when the server is started from the repository root.)
configure_drive(file, folder_id, auto_upload, now, outcome) ==
    LET record == [folder_id |-> folder_id, auto_upload |-> auto_upload, updated_at |-> now]
    IN  [file |-> WriteFile(file, JsonDump(record), outcome),
         resp |-> IF outcome = "ok"
                  THEN [status |-> 200,
                        body |-> [success |-> TRUE, message |-> "Drive configuration updated"]]
                  ELSE [status |-> 500, body |-> [success |-> FALSE, error |-> "OSError"]]]

----------------------------------------------------------------------------
(* Actions.                                                                 *)

\* ret: the operation that returned last; an environment step clears it.
\* args and res are records throughout: a method that returns a bare value
\* has it under the field returned, authenticated or folders.
Nothing == [none |-> TRUE]
NoRet == [op |-> "none", args |-> Nothing, res |-> Nothing, status |-> 0, calls |-> <<>>]
Ret(op, args, res, status, calls) ==
    [op |-> op, args |-> args, res |-> res, status |-> status, calls |-> calls]

\* A request thread of upload_to_drive on a base64 payload: "free" (no
\* request), "received" (the body is read), "staged" (the payload is in its
\* temp file, upload_file not yet called) or "uploaded" (upload_file has
\* returned, the temp file not yet removed).
NoBody == [filename |-> <<>>, file_data |-> "", buyer_name |-> <<>>, invoice_no |-> <<>>]
Free == [pos |-> "free", q |-> NoBody, name |-> <<>>, path |-> <<>>,
         result |-> Nothing, calls |-> <<>>]
NoRequests == [i \in 1..MaxRequests |-> Free]

\* server.py line 23: drive_service = DriveService()
Construct ==
    /\ pc = "down"
    /\ \E in \in AuthInputs, w \in WriteOutcomes :
         LET lc == load_config(configFile, w)
             a  == authenticate(Env, in)
         IN  /\ config' = lc.config
             /\ configFile' = lc.file
             /\ credentials' = a.creds
             /\ service' = a.service
             /\ tokFile' = a.tokFile
             /\ auth' = [tried |-> a.tried, refreshes |-> a.refreshes,
                         refreshOk |-> in.refreshOk, flowOk |-> in.flowOk]
             /\ ret' = Ret("DriveService", Nothing, [authenticated |-> a.ok], 0, <<>>)
    /\ pc' = "serving"
    /\ UNCHANGED <<inflight, envSA, fileSA, envTok, credFile, envClient, fs>>

\* self.config while there is no DriveService object.
NoConfig == [unloaded |-> TRUE]

\* The process ends; what it held in memory is gone, the requests it was
\* handling included.
Shutdown ==
    /\ pc = "serving"
    /\ pc' = "down"
    /\ credentials' = NoCred
    /\ service' = FALSE
    /\ config' = NoConfig
    /\ auth' = NoAuth
    /\ inflight' = NoRequests
    /\ ret' = NoRet
    /\ UNCHANGED <<envVars, configFile, fs>>

\* The operator changes one credential source; a running process is not told.
SetEnvSA(states) ==
    /\ \E v \in states : envSA' = v
    /\ ret' = NoRet
    /\ UNCHANGED <<inflight, fileSA, envTok, tokFile, credFile, envClient, configFile, fs, objVars>>

SetFileSA(states) ==
    /\ \E v \in states : fileSA' = v
    /\ ret' = NoRet
    /\ UNCHANGED <<inflight, envSA, envTok, tokFile, credFile, envClient, configFile, fs, objVars>>

SetEnvTok(docs) ==
    /\ \E v \in docs : envTok' = v
    /\ ret' = NoRet
    /\ UNCHANGED <<inflight, envSA, fileSA, tokFile, credFile, envClient, configFile, fs, objVars>>

SetTokFile(docs) ==
    /\ \E v \in docs : tokFile' = v
    /\ ret' = NoRet
    /\ UNCHANGED <<inflight, envSA, fileSA, envTok, credFile, envClient, configFile, fs, objVars>>

SetCredFile(states) ==
    /\ \E v \in states : credFile' = v
    /\ ret' = NoRet
    /\ UNCHANGED <<inflight, envSA, fileSA, envTok, tokFile, envClient, configFile, fs, objVars>>

SetEnvClient(states) ==
    /\ \E v \in states : envClient' = v
    /\ ret' = NoRet
    /\ UNCHANGED <<inflight, envSA, fileSA, envTok, tokFile, credFile, configFile, fs, objVars>>

\* Time passes: the cached credential reaches its expiry.
Expire ==
    /\ pc = "serving"
    /\ ~NotCreds(credentials)
    /\ ~credentials.expired
    /\ credentials' = [credentials EXCEPT !.expired = TRUE]
    /\ ret' = NoRet
    /\ UNCHANGED <<inflight, envVars, configFile, fs, pc, service, config, auth>>

\* Something outside the server stores a file.
StoreLocalFile(paths, contents) ==
    /\ \E p \in paths, b \in contents : fs' = FileWrite(fs, p, b)
    /\ ret' = NoRet
    /\ UNCHANGED <<inflight, envVars, configFile, objVars>>

UploadFile(paths, folders) ==
    /\ pc = "serving"
    /\ \E p \in paths, f \in folders, in \in ProviderInputs, rm \in BOOLEAN :
         LET u == upload_file(service, credentials, config, fs, p, f, in, rm)
         IN  /\ fs' = u.fs
             /\ ret' = Ret("upload_file", [file_path |-> p, folder_id |-> f], u.res, 0, u.calls)
    /\ UNCHANGED <<inflight, envVars, configFile, objVars>>

GetUserInfo ==
    /\ pc = "serving"
    /\ \E in \in ProviderInputs :
         LET r == get_user_info(service, credentials, in)
         IN  ret' = Ret("get_user_info", Nothing, r.res, 0, r.calls)
    /\ UNCHANGED <<inflight, envVars, configFile, fs, objVars>>

GetFolders(parents) ==
    /\ pc = "serving"
    /\ \E p \in parents, in \in ProviderInputs :
         LET r == get_folders(service, credentials, p, in)
         IN  ret' = Ret("get_folders", [parent_id |-> p], [folders |-> r.res], 0, r.calls)
    /\ UNCHANGED <<inflight, envVars, configFile, fs, objVars>>

CreateFolder(names, parents) ==
    /\ pc = "serving"
    /\ \E n \in names, p \in parents, in \in ProviderInputs :
         LET r == create_folder(service, credentials, n, p, in)
         IN  ret' = Ret("create_folder", [folder_name |-> n, parent_id |-> p], r.res, 0, r.calls)
    /\ UNCHANGED <<inflight, envVars, configFile, fs, objVars>>

UpdateConfig(new_configs) ==
    /\ pc = "serving"
    /\ \E n \in new_configs, w \in WriteOutcomes :
         LET r == update_config(config, configFile, n, w)
         IN  /\ config' = r.config
             /\ configFile' = r.file
             /\ ret' = Ret("update_config", [new_config |-> n], [returned |-> r.result], 0, <<>>)
    /\ UNCHANGED <<inflight, envVars, fs, pc, credentials, service, auth>>

PostUploadPath(paths) ==
    /\ pc = "serving"
    /\ \E p \in paths, in \in ProviderInputs, rm \in BOOLEAN :
         LET r == upload_to_drive_path(service, credentials, config, fs, p, in, rm)
         IN  /\ fs' = r.fs
             /\ ret' = Ret("POST upload-to-drive path", [file_path |-> p],
                           r.resp.body, r.resp.status, r.calls)
    /\ UNCHANGED <<inflight, envVars, configFile, objVars>>

PostUploadData(requests) ==
    /\ pc = "serving"
    /\ \E q \in requests, in \in ProviderInputs, w \in WriteOutcomes,
          rm \in BOOLEAN, rm2 \in BOOLEAN :
         LET r == upload_to_drive_data(service, credentials, config, fs, q.filename,
                                       q.file_data, q.buyer_name, q.invoice_no,
                                       in, w, rm, rm2)
         IN  /\ fs' = r.fs
             /\ ret' = Ret("POST upload-to-drive data",
                           [filename |-> q.filename, file_data |-> q.file_data,
                            buyer_name |-> q.buyer_name, invoice_no |-> q.invoice_no,
                            temp_file_path |-> r.path],
                           r.resp.body, r.resp.status, r.calls)
    /\ UNCHANGED <<inflight, envVars, configFile, objVars>>

ConfigureDrive(folders) ==
    /\ pc = "serving"
    /\ \E f \in folders, au \in BOOLEAN, now \in Stamps, w \in WriteOutcomes :
         LET r == configure_drive(configFile, f, au, now, w)
         IN  /\ configFile' = r.file
             /\ ret' = Ret("POST configure-drive", [folder_id |-> f, auto_upload |-> au],
                           r.resp.body, r.resp.status, <<>>)
    /\ UNCHANGED <<inflight, envVars, fs, objVars>>

\* The upload request on a base64 payload, step by step.  The server handles
\* each request in a thread of its own (app.run, threaded by default), so the
\* steps of two requests interleave.

\* A request arrives and a thread reads its body (lines 55-60).
ReceiveUploadData(requests) ==
    /\ pc = "serving"
    /\ \E i \in 1..MaxRequests :
         /\ inflight[i].pos = "free"
         /\ \A j \in 1..(i - 1) : inflight[j].pos # "free"
         /\ \E q \in requests :
              inflight' = [inflight EXCEPT ![i] = [Free EXCEPT !.pos = "received", !.q = q]]
    /\ ret' = NoRet
    /\ UNCHANGED <<envVars, configFile, fs, objVars>>

\* Lines 62-108: the checks of the body, the decoding, the derivation of the
\* name and the write of the temp file; a request that fails here is answered.
StageUploadData ==
    /\ pc = "serving"
    /\ \E i \in 1..MaxRequests, w \in WriteOutcomes :
         /\ inflight[i].pos = "received"
         /\ LET q      == inflight[i].q
                bytes  == B64Decode(q.file_data)
                name   == custom_filename(q.buyer_name, q.invoice_no, q.filename)
                path   == temp_file_path(name)
                staged == WriteBytes(fs, path, bytes, w)
                args(tp) == [filename |-> q.filename, file_data |-> q.file_data,
                             buyer_name |-> q.buyer_name, invoice_no |-> q.invoice_no,
                             temp_file_path |-> tp]
                Answer(tp, status, error) ==
                    /\ inflight' = [inflight EXCEPT ![i] = Free]
                    /\ ret' = Ret("POST upload-to-drive data", args(tp),
                                  [success |-> FALSE, error |-> error], status, <<>>)
            IN  IF q.filename = <<>> \/ q.file_data = ""
                THEN /\ Answer(<<>>, 400, "Either file_path or (filename + file_data) must be provided")
                     /\ fs' = fs
                ELSE IF bytes = "error"
                THEN /\ Answer(<<>>, 400, "Invalid base64 data")
                     /\ fs' = fs
                ELSE IF WriteRaised(path, w)
                THEN /\ Answer(path, 500, "OSError")
                     /\ fs' = staged
                ELSE /\ inflight' = [inflight EXCEPT ![i].pos = "staged",
                                                      ![i].name = name, ![i].path = path]
                     /\ fs' = staged
                     /\ ret' = NoRet
    /\ UNCHANGED <<envVars, configFile, objVars>>

\* Line 111: result = drive_service.upload_file(temp_file_path)
UploadStaged ==
    /\ pc = "serving"
    /\ \E i \in 1..MaxRequests, in \in ProviderInputs, rm \in BOOLEAN :
         /\ inflight[i].pos = "staged"
         /\ LET u == upload_file(service, credentials, config, fs, inflight[i].path, "", in, rm)
            IN  /\ fs' = u.fs
                /\ inflight' = [inflight EXCEPT ![i].pos = "uploaded",
                                                 ![i].result = u.res, ![i].calls = u.calls]
                /\ ret' = Ret("upload_file", [file_path |-> inflight[i].path, folder_id |-> ""],
                              u.res, 0, u.calls)
    /\ UNCHANGED <<envVars, configFile, objVars>>

\* Lines 113-136: the temp file is removed, errors ignored, and the request
\* is answered.
RespondUploadData ==
    /\ pc = "serving"
    /\ \E i \in 1..MaxRequests, rm2 \in BOOLEAN :
         /\ inflight[i].pos = "uploaded"
         /\ LET r    == inflight[i]
                resp == UploadResponse(r.result)
            IN  /\ fs' = CleanupStaged(fs, r.path, rm2)
                /\ inflight' = [inflight EXCEPT ![i] = Free]
                /\ ret' = Ret("POST upload-to-drive data",
                              [filename |-> r.q.filename, file_data |-> r.q.file_data,
                               buyer_name |-> r.q.buyer_name, invoice_no |-> r.q.invoice_no,
                               temp_file_path |-> r.path],
                              resp.body, resp.status, r.calls)
    /\ UNCHANGED <<envVars, configFile, objVars>>

----------------------------------------------------------------------------
(* Specifications.                                                          *)

InvoicePdf == <<UserDir, "A", ".", "p", "d", "f">>
MissingPdf == <<UserDir, "B", ".", "p", "d", "f">>

TypeOK ==
    /\ envSA \in SourceStates /\ fileSA \in SourceStates
    /\ envTok \in TokDocs /\ tokFile \in TokDocs
    /\ credFile \in SourceStates /\ envClient \in SourceStates
    /\ pc \in {"down", "serving"}
    /\ service \in BOOLEAN
    /\ credentials.src \in 0..5

Down ==
    /\ pc = "down"
    /\ credentials = NoCred
    /\ service = FALSE
    /\ config = NoConfig
    /\ auth = NoAuth
    /\ inflight = NoRequests
    /\ ret = NoRet

\* Credential resolution: every combination of the six sources, under a
\* process that is started and stopped again and again.
InitResolve ==
    /\ envSA \in SourceStates /\ fileSA \in SourceStates
    /\ envTok \in TokDocs /\ tokFile \in TokDocs
    /\ credFile \in SourceStates /\ envClient \in SourceStates
    /\ configFile = JsonDump(default_config)
    /\ fs = (InvoicePdf :> "%PDF-1")
    /\ Down

NextResolve ==
    \/ Construct
    \/ Shutdown
    \/ pc = "down" /\ SetEnvSA(SourceStates)
    \/ pc = "down" /\ SetFileSA(SourceStates)
    \/ pc = "down" /\ SetEnvTok(TokDocs)
    \/ pc = "down" /\ SetTokFile(TokDocs)
    \/ pc = "down" /\ SetCredFile(SourceStates)
    \/ pc = "down" /\ SetEnvClient(SourceStates)

SpecResolve == InitResolve /\ [][NextResolve]_vars

\* The DriveService methods on whatever was resolved at startup, while the
\* cached credential expires and a service account appears or disappears.
InitServe ==
    /\ envSA \in {"none", "good"} /\ fileSA \in {"none", "bad"}
    /\ envTok \in {NoDoc, TokDoc(TRUE, FALSE), TokDoc(FALSE, TRUE)}
    /\ tokFile \in {NoDoc, TokDoc(TRUE, TRUE)}
    /\ credFile \in {"none", "good"} /\ envClient \in {"none", "good"}
    /\ configFile = JsonDump(default_config)
    /\ fs = (InvoicePdf :> "%PDF-1")
    /\ Down

NextServe ==
    \/ Construct
    \/ Shutdown
    \/ SetEnvSA({"none", "good"})
    \/ Expire
    \/ UploadFile({InvoicePdf, MissingPdf}, {""})
    \/ GetUserInfo
    \/ GetFolders({""})
    \/ CreateFolder({<<"d">>}, {""})

SpecServe == InitServe /\ [][NextServe]_vars

\* The config record: a process that restarts, update_config, the
\* configure-drive request, and uploads with and without an explicit folder.
ConfiguredRecord ==
    [folder_id |-> "F1", auto_upload |-> TRUE, delete_after_upload |-> FALSE]

NewConfigs ==
    {[folder_id |-> f] : f \in {"", "F1", "F2"}}
        \cup {[folder_id |-> "F2", auto_upload |-> FALSE]}

InitConfig ==
    /\ envSA \in {"none", "good"} /\ fileSA = "none"
    /\ envTok = NoDoc /\ tokFile = NoDoc
    /\ credFile = "none" /\ envClient = "none"
    /\ configFile \in {AbsentFile, CorruptFile, JsonDump(default_config),
                       JsonDump(ConfiguredRecord)}
    /\ fs = (InvoicePdf :> "%PDF-1")
    /\ Down

NextConfig ==
    \/ Construct
    \/ Shutdown
    \/ ConfigureDrive({"", "F1", "F2"})
    \/ UpdateConfig(NewConfigs)
    \/ UploadFile({InvoicePdf}, {"", "F2"})

SpecConfig == InitConfig /\ [][NextConfig]_vars

\* Uploads and the files they touch: direct calls and both forms of the
\* upload request, with and without delete-after-upload.
DeletingRecord ==
    [folder_id |-> "", auto_upload |-> TRUE, delete_after_upload |-> TRUE]

DataRequest(fn, d, b, n) ==
    [filename |-> fn, file_data |-> d, buyer_name |-> b, invoice_no |-> n]

XPdf == <<"x", ".", "p", "d", "f">>

\* Two well-formed requests that derive the same name from different buyer
\* names, and one request for each way the handler turns a request down.
StageRequests ==
    {DataRequest(XPdf, "JVBERi0x", <<"A", "ç", " ", "!">>, <<"7">>),
     DataRequest(<<"x">>, "JVBERi0y", <<"A", "ç">>, <<"7">>),
     DataRequest(<<>>, "JVBERi0x", <<"B">>, <<"7">>),
     DataRequest(XPdf, "", <<"B">>, <<"7">>),
     DataRequest(XPdf, "abc", <<"B">>, <<"7">>),
     DataRequest(XPdf, "JVBERi0x", <<"B">>, <<"1", "/", "2">>)}

InitStage ==
    /\ envSA \in {"none", "good"} /\ fileSA = "none"
    /\ envTok = NoDoc /\ tokFile = NoDoc
    /\ credFile = "none" /\ envClient = "none"
    /\ configFile \in {JsonDump(default_config), JsonDump(DeletingRecord)}
    /\ fs \in {<<>>, (InvoicePdf :> "%PDF-1")}
    /\ Down

NextStage ==
    \/ Construct
    \/ Shutdown
    \/ StoreLocalFile({InvoicePdf}, {"%PDF-1"})
    \/ UploadFile({InvoicePdf, MissingPdf}, {""})
    \/ PostUploadPath({InvoicePdf, MissingPdf})
    \/ PostUploadData(StageRequests)

SpecStage == InitStage /\ [][NextStage]_vars

\* The derivation of the upload name: a running, authenticated server that
\* has received one request, for every buyer name of up to MaxNameLen
\* characters and for the name "Açme Corp!".
SeqsUpTo(S, n) == UNION {[1..k -> S] : k \in 0..n}

AcmeCorp == <<"A", "ç", "m", "e", " ", "C", "o", "r", "p", "!">>

DeriveBuyers == SeqsUpTo({"A", "ç", " ", "!", "-", "_"}, MaxNameLen) \cup {AcmeCorp}
DeriveNumbers == {<<"7">>, <<"1", "/", "2">>}
DeriveFilenames == {XPdf, <<"x">>, <<"x", ".", "d", ".", "t", "x", "t">>, <<"x", ".">>}

DeriveRequests ==
    {DataRequest(fn, "JVBERi0x", b, n) :
        fn \in DeriveFilenames, b \in DeriveBuyers, n \in DeriveNumbers}

InitDerive ==
    /\ envSA = "good" /\ fileSA = "none"
    /\ envTok = NoDoc /\ tokFile = NoDoc
    /\ credFile = "none" /\ envClient = "none"
    /\ configFile = JsonDump(default_config)
    /\ fs = <<>>
    /\ pc = "serving"
    /\ credentials = Cred(1, FALSE, FALSE)
    /\ service = TRUE
    /\ config = default_config
    /\ auth = [tried |-> <<1>>, refreshes |-> 0, refreshOk |-> FALSE, flowOk |-> FALSE]
    /\ \E q \in DeriveRequests :
         inflight = [NoRequests EXCEPT ![1] = [Free EXCEPT !.pos = "received", !.q = q]]
    /\ ret = NoRet

NextDerive ==
    \/ StageUploadData
    \/ UploadStaged
    \/ RespondUploadData

SpecDerive == InitDerive /\ [][NextDerive]_vars

\* Overlapping upload requests: two with the same buyer name, invoice number
\* and extension and different payloads, and one that derives another name.
OverlapRequests ==
    {DataRequest(XPdf, "JVBERi0x", <<"A">>, <<"7">>),
     DataRequest(XPdf, "JVBERi0y", <<"A">>, <<"7">>),
     DataRequest(XPdf, "JVBERi0y", <<"B">>, <<"7">>)}

InitOverlap ==
    /\ envSA \in {"none", "good"} /\ fileSA = "none"
    /\ envTok = NoDoc /\ tokFile = NoDoc
    /\ credFile = "none" /\ envClient = "none"
    /\ configFile \in {JsonDump(default_config), JsonDump(DeletingRecord)}
    /\ fs = <<>>
    /\ Down

NextOverlap ==
    \/ Construct
    \/ Shutdown
    \/ ReceiveUploadData(OverlapRequests)
    \/ StageUploadData
    \/ UploadStaged
    \/ RespondUploadData

SpecOverlap == InitOverlap /\ [][NextOverlap]_vars

----------------------------------------------------------------------------
(* Claims about credential resolution (SpecResolve).                        *)

Starts == pc = "down" /\ pc' = "serving"

\* Whether method m, run on environment e with the answers a, yields a
\* credential that is not expired.
Yields(m, e, a) ==
    CASE m = 1 -> e.envSA = "good"
      [] m = 2 -> e.fileSA = "good"
      [] m = 3 -> e.envTok.kind = "tok"
                  /\ (~e.envTok.expired \/ (e.envTok.refresh /\ a.refreshOk))
      [] m = 4 -> e.tokFile.kind = "tok"
                  /\ (~e.tokFile.expired \/ (e.tokFile.refresh /\ a.refreshOk))
      [] m = 5 -> e.credFile = "good" /\ a.flowOk
      [] m = 6 -> FALSE

FirstYielding(e, a) ==
    IF \E m \in 1..6 : Yields(m, e, a)
    THEN CHOOSE m \in 1..6 : Yields(m, e, a) /\ \A n \in 1..(m - 1) : ~Yields(n, e, a)
    ELSE 0

\* C1: whenever authenticate runs and some method yields a credential that is
\* not expired, the current credential is the one of the first such method in
\* the order 1..6, and no method after that one is entered.
C1_FirstNonExpiredWins ==
    [][Starts =>
         LET k == FirstYielding(Env, auth')
         IN  k # 0 => /\ credentials'.src = k
                      /\ \A i \in 1..Len(auth'.tried) : auth'.tried[i] <= k]_vars

\* C8 as stated: when authenticate succeeds through method 4 with a
\* credential that is not expired, token.json then holds a token that is not
\* expired (the refreshed credential was written back).
C8_WrittenBack ==
    [][(Starts /\ credentials'.src = 4 /\ ~credentials'.expired)
          => (tokFile'.kind = "tok" /\ ~tokFile'.expired)]_vars

\* C8 amended: when authenticate succeeds through method 4, token.json is left
\* exactly as it was, and the refresh call is made if and only if the file
\* holds an expired token with a refresh token: a file that needed a refresh
\* needs it again at the next resolution.  A start changes token.json only
\* through method 5.
C8_NotWrittenBack ==
    [][Starts =>
         /\ credentials'.src = 4 =>
              /\ tokFile' = tokFile
              /\ (auth'.refreshes = 1) = (tokFile.expired /\ tokFile.refresh)
         /\ tokFile' # tokFile => credentials'.src = 5]_vars

\* Method 4 refreshed an expired token, and the file still holds the expired one.
C8_Witness ==
    /\ pc = "serving"
    /\ credentials.src = 4 /\ ~credentials.expired
    /\ auth.refreshes = 1
    /\ tokFile.kind = "tok" /\ tokFile.expired

----------------------------------------------------------------------------
(* Claims about the methods of a constructed service (SpecServe).           *)

\* C2: while the process holds no credential (all six methods yielded none),
\* the operation that returned last made no provider call; upload_file and
\* create_folder returned the Not authenticated failure, get_user_info the
\* Not authenticated error, and get_folders the empty list.
C2_Unauthenticated ==
    (pc = "serving" /\ NotCreds(credentials)) =>
        /\ ret.calls = <<>>
        /\ ret.op \in {"upload_file", "create_folder"} => ret.res = NotAuthenticated
        /\ ret.op = "get_user_info" => ret.res = [error |-> "Not authenticated"]
        /\ ret.op = "get_folders" => ret.res = [folders |-> <<>>]

\* Methods were entered, none yielded a credential, and get_folders returned.
C2_Witness ==
    /\ pc = "serving" /\ NotCreds(credentials)
    /\ Len(auth.tried) >= 2
    /\ ret.op = "get_folders"

\* C3: every provider upload call is made with a credential that is not expired.
C3_UploadWithValidCredential ==
    \A i \in 1..Len(ret.calls) :
        ret.calls[i].kind = "files.create" => ~ret.calls[i].cred.expired

\* C5 as stated: an upload requested while a service account is available in
\* the environment leaves the process with a resolved credential (the upload
\* resolved it if startup had not).
C5_ResolvedByUpload ==
    (ret.op = "upload_file" /\ envSA = "good") => ~NotCreds(credentials)

\* C5 amended: an upload requested while self.service is None returns Not
\* authenticated without a provider call and without running resolution:
\* credentials, service and the record of the last resolution are as the
\* constructor left them, whatever sources are available by then.
C5_ResolvedOnlyAtStartup ==
    [][(ret'.op = "upload_file" /\ ~service) =>
         /\ ret'.res = NotAuthenticated
         /\ ret'.calls = <<>>
         /\ credentials' = credentials /\ service' = service /\ auth' = auth]_vars

\* An upload was refused although a service account had become available.
C5_Witness ==
    /\ ret.op = "upload_file" /\ ret.res = NotAuthenticated
    /\ NotCreds(credentials) /\ envSA = "good"

----------------------------------------------------------------------------
(* Claims about the config record (SpecConfig).                             *)

\* The folder id of the record config/drive_config.json holds.
PersistedFolder == DictGet(load_config(configFile, "ok").config, "folder_id", "")

\* C6: the parent of every provider upload call is the explicit folder when
\* one is given, else the folder id of the persisted config record as last
\* written, else none.
C6_ParentFromPersistedConfig ==
    \A i \in 1..Len(ret.calls) :
        (ret.op = "upload_file" /\ ret.calls[i].kind = "files.create") =>
            ret.calls[i].parent =
                IF ret.args.folder_id # "" THEN ret.args.folder_id ELSE PersistedFolder

\* C7: when update_config(new_config) returns True, load_config on the file
\* it wrote returns exactly the in-memory config, which is the old config
\* with the fields of new_config put over it.
C7_RoundTrip ==
    [][(ret'.op = "update_config" /\ ret'.res.returned) =>
         /\ load_config(configFile', "ok").config = config'
         /\ config' = DictUpdate(config, ret'.args.new_config)]_vars

\* update_config returned True on a record that configure-drive had written
\* and a restart had loaded.
C7_Witness ==
    /\ ret.op = "update_config" /\ ret.res.returned
    /\ "updated_at" \in DOMAIN config
    /\ config.folder_id = "F2"

----------------------------------------------------------------------------
(* Claims about uploads and local files (SpecStage).                        *)

\* C4 as stated: upload_file, and the upload request with file_path, on a
\* path that does not exist return the File not found failure and make no
\* provider call.
C4_FileNotFound ==
    [][(ret'.op \in {"upload_file", "POST upload-to-drive path"}
            /\ ~Exists(fs, ret'.args.file_path)) =>
         /\ ret'.res = FileNotFound
         /\ ret'.calls = <<>>]_vars

\* C4 amended: on a path that does not exist no provider call is made and no
\* file is touched; the upload request with file_path answers 400 File not
\* found; upload_file returns File not found when self.service is set and Not
\* authenticated when it is None, because it checks the service first.
C4_FileNotFoundAfterServiceCheck ==
    [][(ret'.op \in {"upload_file", "POST upload-to-drive path"}
            /\ ~Exists(fs, ret'.args.file_path)) =>
         /\ ret'.calls = <<>>
         /\ fs' = fs
         /\ ret'.op = "POST upload-to-drive path" =>
                (ret'.res = FileNotFound /\ ret'.status = 400)
         /\ ret'.op = "upload_file" =>
                ret'.res = IF service THEN FileNotFound ELSE NotAuthenticated]_vars

\* upload_file was called on a missing path without a service.
C4_Witness ==
    /\ ret.op = "upload_file" /\ ret.args.file_path = MissingPdf
    /\ ~service
    /\ ret.res = NotAuthenticated

\* C9: once the upload request with file_data has returned, the file it
\* staged is gone.
C9_NoStagedFileRemains ==
    (ret.op = "POST upload-to-drive data" /\ ret.args.temp_file_path # <<>>) =>
        ~Exists(fs, ret.args.temp_file_path)

\* C10: when the provider accepted the upload, delete-after-upload is set and
\* the local file is still there (os.remove failed), upload_file returned
\* success with the id, name and link the provider answered.
C10_DeleteFailureKeepsSuccess ==
    (/\ ret.op = "upload_file"
     /\ Len(ret.calls) = 1 /\ ret.calls[1].outcome = "ok"
     /\ DictGet(config, "delete_after_upload", FALSE)
     /\ Exists(fs, ret.args.file_path)) =>
        ret.res = [success |-> TRUE, file_id |-> ret.calls[1].id,
                   file_name |-> ret.calls[1].name,
                   web_link |-> WebLink(ret.calls[1].id)]

C10_Witness ==
    /\ ret.op = "upload_file"
    /\ Len(ret.calls) = 1 /\ ret.calls[1].outcome = "ok"
    /\ config.delete_after_upload
    /\ Exists(fs, ret.args.file_path)
    /\ ret.res.success

\* C11: every upload_file call makes at most one provider call; when the
\* provider rejects that call, upload_file returns the failure whose error is
\* the provider's message, the local file system is as it was (the source
\* file is still there) and neither the config nor its file has changed.
C11_SingleCallNoRetry ==
    [][ret'.op = "upload_file" =>
         /\ Len(ret'.calls) <= 1
         /\ (Len(ret'.calls) = 1 /\ ret'.calls[1].outcome = "error") =>
              /\ ret'.res = [success |-> FALSE, error |-> ret'.calls[1].message]
              /\ fs' = fs /\ Exists(fs', ret'.args.file_path)
              /\ config' = config /\ configFile' = configFile]_vars

\* The provider rejected an upload while delete-after-upload was set.
C11_Witness ==
    /\ ret.op = "upload_file"
    /\ Len(ret.calls) = 1 /\ ret.calls[1].outcome = "error"
    /\ ret.res = [success |-> FALSE, error |-> "HttpError 404: notFound"]
    /\ config.delete_after_upload
    /\ Exists(fs, ret.args.file_path)

----------------------------------------------------------------------------
(* Claims about the derived upload name (SpecDerive).                       *)

\* The characters sanitization lets through: letters, digits, underscore,
\* hyphen and whitespace.
IsKept(c) == c \in Letters \cup Digits \cup Whitespace \cup {"_", "-"}

\* Positions a..b of k, each run of whitespace replaced by one underscore.
RECURSIVE RunsToUnderscores(_, _, _)
RunsToUnderscores(k, a, b) ==
    IF a > b THEN <<>>
    ELSE (IF k[a] \notin Whitespace THEN <<k[a]>>
          ELSE IF a > 1 /\ k[a - 1] \in Whitespace THEN <<>> ELSE <<"_">>)
         \o RunsToUnderscores(k, a + 1, b)

\* Sanitization as the claim states it: remove, then replace every run.
SanitizedAsStated(s) ==
    LET k == SelectSeq(s, IsKept) IN RunsToUnderscores(k, 1, Len(k))

\* Sanitization with the whitespace before the first and after the last
\* other character dropped before the runs are replaced.
SanitizedStripped(s) ==
    LET k  == SelectSeq(s, IsKept)
        nw == {i \in 1..Len(k) : k[i] \notin Whitespace}
    IN  IF nw = {} THEN <<>>
        ELSE RunsToUnderscores(k, CHOOSE i \in nw : \A j \in nw : i <= j,
                                  CHOOSE i \in nw : \A j \in nw : j <= i)

HasExtension(fn) == \E i \in 1..Len(fn) : fn[i] = "."

\* What follows the last "." of fn.
OriginalExtension(fn) ==
    LET dots == {i \in 1..Len(fn) : fn[i] = "."}
    IN  SubSeq(fn, (CHOOSE i \in dots : \A j \in dots : j <= i) + 1, Len(fn))

\* <buyer>_(Invoice_<number>).<extension>
NameOf(buyer, number, extension) ==
    buyer \o <<"_", "(", "I", "n", "v", "o", "i", "c", "e", "_">> \o number
          \o <<")", ".">> \o extension

Pdf == <<"p", "d", "f">>

NameAsStated(q) ==
    IF q.buyer_name = AcmeCorp /\ q.invoice_no = <<"7">> /\ OriginalExtension(q.filename) = Pdf
    THEN NameOf(<<"A", "c", "m", "e", "_", "C", "o", "r", "p">>, <<"7">>, Pdf)
    ELSE NameOf(SanitizedAsStated(q.buyer_name), q.invoice_no, OriginalExtension(q.filename))

NameAsAmended(q) ==
    NameOf(SanitizedStripped(q.buyer_name), q.invoice_no,
           IF HasExtension(q.filename) THEN OriginalExtension(q.filename) ELSE Pdf)

\* The names the handler derived, as the state shows them: the name and the
\* temp file of each request being handled, and the temp file and the
\* provider calls of the request answered last.
DerivedNames ==
    {[q |-> inflight[i].q, name |-> inflight[i].name, path |-> inflight[i].path] :
        i \in {j \in 1..MaxRequests : inflight[j].pos \in {"staged", "uploaded"}}}
    \cup
    (IF ret.op = "POST upload-to-drive data" /\ ret.args.temp_file_path # <<>>
     THEN LET q == DataRequest(ret.args.filename, ret.args.file_data,
                               ret.args.buyer_name, ret.args.invoice_no)
          IN  {[q |-> q, name |-> Tail(ret.args.temp_file_path),
                path |-> ret.args.temp_file_path]}
              \cup {[q |-> q, name |-> ret.calls[c].name, path |-> ret.args.temp_file_path] :
                       c \in 1..Len(ret.calls)}
     ELSE {})

\* C12 as stated: for every buyer name, invoice number and original filename
\* with an extension, the derived upload name is
\* <sanitized buyer name>_(Invoice_<invoice number>).<original extension>,
\* where sanitization removes every character that is not a letter, digit,
\* underscore, hyphen or whitespace and then replaces each whitespace run by
\* one underscore; "Açme Corp!", "7" and pdf give Acme_Corp_(Invoice_7).pdf.
C12_DerivedNameAsStated ==
    \A d \in DerivedNames :
        HasExtension(d.q.filename) =>
            (d.name = NameAsStated(d.q) /\ d.path = <<TempDir>> \o d.name)

\* C12 amended: the derived upload name is
\* <sanitized buyer name>_(Invoice_<invoice number>).<extension>, where
\* sanitization removes every character that is not a letter (of any
\* alphabet), digit, underscore, hyphen or whitespace, then drops leading and
\* trailing whitespace, then replaces each whitespace run by one underscore,
\* and the extension is what follows the last "." of the original filename,
\* pdf when it has none; "Açme Corp!", "7" and pdf give
\* Açme_Corp_(Invoice_7).pdf.
C12_DerivedName ==
    \A d \in DerivedNames :
        d.name = NameAsAmended(d.q) /\ d.path = <<TempDir>> \o d.name

\* The request for "Açme Corp!" and 7 was uploaded under the name the code derives.
C12_Witness ==
    /\ ret.op = "POST upload-to-drive data"
    /\ ret.args.buyer_name = AcmeCorp /\ ret.args.invoice_no = <<"7">>
    /\ ret.status = 200
    /\ Len(ret.calls) = 1
    /\ ret.calls[1].name = <<"A", "ç", "m", "e", "_", "C", "o", "r", "p", "_", "(", "I", "n",
                             "v", "o", "i", "c", "e", "_", "7", ")", ".", "p", "d", "f">>

----------------------------------------------------------------------------
(* Claims about overlapping upload requests (SpecOverlap).                  *)

\* Request i has called upload_file while another request that derived the
\* same name is being handled.
OverlapsSameName(i) ==
    /\ inflight[i].pos = "uploaded"
    /\ \E j \in 1..MaxRequests \ {i} :
         /\ inflight[j].pos \in {"staged", "uploaded"}
         /\ inflight[j].name = inflight[i].name

\* C13: when two upload requests with base64 payloads overlap and derive the
\* same filename on an authenticated server, each has made one provider call
\* of its own that uploads its own payload bytes, and neither was answered
\* File not found.
C13_OwnBytesUploaded ==
    \A i \in 1..MaxRequests :
        (OverlapsSameName(i) /\ service) =>
            /\ inflight[i].result # FileNotFound
            /\ Len(inflight[i].calls) = 1
            /\ inflight[i].calls[1].bytes = B64Decode(inflight[i].q.file_data)

====
